---- MODULE Spec2Model ----
(***************************************************************************)
(* Model of abcd.py: the pipeline                                          *)
(*   parse_args -> exists -> leer_csv -> limpiar_df -> filtrar_por_fecha   *)
(*   -> calcular_indicador -> mkdir -> to_csv -> print                     *)
(* over a small CSV file.  DataFrame cells are tagged values: a raw string *)
(* as read from the file, a number, a timestamp, or NaN/NaT.               *)
(***************************************************************************)
EXTENDS Integers, Sequences, FiniteSets, TLC

VARIABLES pc, args, csv, df, reporte, err, outDir, outFile, stdout, trace

vars == <<pc, args, csv, df, reporte, err, outDir, outFile, stdout, trace>>

(***************************************************************************)
(* Bounds of the model.                                                    *)
(***************************************************************************)
MaxRows == 3

MaxRowsCalcular == 4

(***************************************************************************)
(* Cells.                                                                  *)
(***************************************************************************)
NaN == [t |-> "nan", s |-> "", n |-> 0]
Str(x) == [t |-> "str", s |-> x, n |-> 0]
Num(x) == [t |-> "num", s |-> "", n |-> x]
Date(x) == [t |-> "date", s |-> "", n |-> x]

None == "None"

INDICADORES_VALIDOS == {"suma", "promedio", "mediana", "conteo"}

NOMBRES_FECHA == {"fecha", "date", "dia", "day"}

(* str.lower() on the column names that occur in the model *)
Lower(c) ==
    CASE c = "Fecha" -> "fecha"
      [] OTHER -> c

(* What the float parser makes of a text cell: <<TRUE, n>> or <<FALSE, 0>> *)
ParseNumber(tok) ==
    CASE tok = "1" -> <<TRUE, 1>>
      [] tok = "2" -> <<TRUE, 2>>
      [] tok = "3" -> <<TRUE, 3>>
      [] tok = "4" -> <<TRUE, 4>>
      [] tok = "10" -> <<TRUE, 10>>
      [] tok = "10.0" -> <<TRUE, 10>>
      [] tok = "20" -> <<TRUE, 20>>
      [] OTHER -> <<FALSE, 0>>

(* What the date parser makes of a text: <<TRUE, day ordinal>> or <<FALSE, 0>> *)
ParseDate(tok) ==
    CASE tok = "2025-01-01" -> <<TRUE, 1>>
      [] tok = "2025-01-02" -> <<TRUE, 2>>
      [] tok = "2025-01-03" -> <<TRUE, 3>>
      [] OTHER -> <<FALSE, 0>>

(***************************************************************************)
(* Sequence helpers.                                                       *)
(***************************************************************************)
SeqsUpTo(S, n) == UNION {[1..k -> S] : k \in 0..n}

Range(s) == {s[i] : i \in 1..Len(s)}

RECURSIVE Filter(_, _, _)
(* the rows of s at the positions of keep, in order (boolean-mask selection) *)
Filter(s, keep, i) ==
    IF i > Len(s) THEN <<>>
    ELSE (IF keep[i] THEN <<s[i]>> ELSE <<>>) \o Filter(s, keep, i + 1)

(***************************************************************************)
(* pd.read_csv and leer_csv.                                               *)
(***************************************************************************)
(* read_csv type inference: a column all of whose non-empty cells parse as *)
(* numbers becomes numeric; otherwise its cells stay text.  Empty cells    *)
(* are NaN in both cases.                                                  *)
ColumnIsNumeric(lines, j) ==
    \A i \in 1..Len(lines) : lines[i][j] = "" \/ ParseNumber(lines[i][j])[1]

ReadCell(lines, i, j) ==
    IF lines[i][j] = "" THEN NaN
    ELSE IF ColumnIsNumeric(lines, j) THEN Num(ParseNumber(lines[i][j])[2])
    ELSE Str(lines[i][j])

read_csv(file) ==
    [columns |-> file.header,
     rows |-> [i \in 1..Len(file.lines) |->
                 [c \in Range(file.header) |->
                    ReadCell(file.lines, i,
                             CHOOSE j \in 1..Len(file.header) : file.header[j] = c)]]]

NoDf == [columns |-> <<>>, rows |-> <<>>]

leer_csv(file) ==
    IF file.header = <<>> THEN [err |-> "EmptyDataError", df |-> NoDf]
    ELSE IF file.lines = <<>> THEN [err |-> "ValueError_vacio", df |-> NoDf]
    ELSE [err |-> "none", df |-> read_csv(file)]

(***************************************************************************)
(* limpiar_df.                                                             *)
(***************************************************************************)
(* DataFrame.drop_duplicates(): keep the first occurrence of every row *)
drop_duplicates(d) ==
    [columns |-> d.columns,
     rows |-> Filter(d.rows,
                     [i \in 1..Len(d.rows) |->
                        \A j \in 1..(i - 1) : d.rows[j] # d.rows[i]], 1)]

(* pd.to_numeric(errors="coerce") on one cell *)
to_numeric(cell) ==
    CASE cell.t = "num" -> cell
      [] cell.t = "str" ->
           IF ParseNumber(cell.s)[1] THEN Num(ParseNumber(cell.s)[2]) ELSE NaN
      [] OTHER -> NaN

(* df[col] = pd.to_numeric(df[col], errors="coerce") *)
AssignNumeric(d, col) ==
    [columns |-> d.columns,
     rows |-> [i \in 1..Len(d.rows) |-> [d.rows[i] EXCEPT ![col] = to_numeric(@)]]]

(* df.dropna(subset=[col]) *)
dropna(d, col) ==
    [columns |-> d.columns,
     rows |-> Filter(d.rows, [i \in 1..Len(d.rows) |-> d.rows[i][col] # NaN], 1)]

limpiar_df(d, columna_valor) ==
    IF columna_valor \notin Range(d.columns)
    THEN [err |-> "KeyError_valor", df |-> drop_duplicates(d)]
    ELSE [err |-> "none",
          df |-> dropna(AssignNumeric(drop_duplicates(d), columna_valor),
                        columna_valor)]

(***************************************************************************)
(* filtrar_por_fecha.                                                      *)
(***************************************************************************)
(* [c for c in df.columns if c.lower() in {...}] *)
posibles_fechas(d) ==
    SelectSeq(d.columns, LAMBDA c : Lower(c) \in NOMBRES_FECHA)

(* pd.to_datetime(errors="coerce") on one cell; a number is read as an     *)
(* offset from the epoch, which lies before every date of the model        *)
to_datetime(cell) ==
    CASE cell.t = "date" -> cell
      [] cell.t = "str" ->
           IF ParseDate(cell.s)[1] THEN Date(ParseDate(cell.s)[2]) ELSE NaN
      [] cell.t = "num" -> Date(0)
      [] OTHER -> NaN

(* df[col] = pd.to_datetime(df[col], errors="coerce") *)
AssignDatetime(d, col) ==
    [columns |-> d.columns,
     rows |-> [i \in 1..Len(d.rows) |-> [d.rows[i] EXCEPT ![col] = to_datetime(@)]]]

(* Python truthiness of an optional string argument *)
Truthy(x) == x # None /\ x # ""

(* KeepFrom with the bound exclusive *)
KeepFrom_Strict(d, col, desde) ==
    [columns |-> d.columns,
     rows |-> Filter(d.rows,
                     [i \in 1..Len(d.rows) |-> d.rows[i][col].n > ParseDate(desde)[2]],
                     1)]

(* df[df[col] >= pd.to_datetime(desde)] *)
KeepFrom(d, col, desde) ==
    [columns |-> d.columns,
     rows |-> Filter(d.rows,
                     [i \in 1..Len(d.rows) |-> d.rows[i][col].n >= ParseDate(desde)[2]],
                     1)]

(* df[df[col] <= pd.to_datetime(hasta)] *)
KeepUntil(d, col, hasta) ==
    [columns |-> d.columns,
     rows |-> Filter(d.rows,
                     [i \in 1..Len(d.rows) |-> d.rows[i][col].n <= ParseDate(hasta)[2]],
                     1)]

(* filtrar_por_fecha that parses the date column even when no bound is given *)
filtrar_por_fecha_AlwaysParse(d, desde, hasta) ==
    IF posibles_fechas(d) = <<>> THEN d
    ELSE LET col_fecha == posibles_fechas(d)[1]
             parsed == dropna(AssignDatetime(d, col_fecha), col_fecha)
             lower == IF Truthy(desde) THEN KeepFrom(parsed, col_fecha, desde)
                      ELSE parsed
         IN IF Truthy(hasta) THEN KeepUntil(lower, col_fecha, hasta) ELSE lower

filtrar_por_fecha(d, desde, hasta) ==
    IF posibles_fechas(d) = <<>> \/ (desde = None /\ hasta = None) THEN d
    ELSE LET col_fecha == posibles_fechas(d)[1]
             parsed == dropna(AssignDatetime(d, col_fecha), col_fecha)
             lower == IF Truthy(desde) THEN KeepFrom(parsed, col_fecha, desde)
                      ELSE parsed
         IN IF Truthy(hasta) THEN KeepUntil(lower, col_fecha, hasta) ELSE lower

(***************************************************************************)
(* calcular_indicador.                                                     *)
(***************************************************************************)
RECURSIVE Gcd(_, _)
Gcd(a, b) == IF b = 0 THEN a ELSE Gcd(b, a % b)

(* the exact quotient a / b of two naturals in lowest terms; 0 / 0 is the  *)
(* float NaN that the mean and the median of no values are                 *)
Frac(a, b) ==
    IF b = 0 THEN [num |-> 0, den |-> 0]
    ELSE [num |-> a \div Gcd(a, b), den |-> b \div Gcd(a, b)]

(* code-point order of the category texts of the model *)
StrRank(x) ==
    CASE x = "A" -> 1
      [] x = "B" -> 2
      [] OTHER -> 0

(* the order groupby(sort=True) puts the group keys in: values ascending,  *)
(* the missing key last                                                    *)
KeyLess(a, b) ==
    IF a.t = "nan" THEN FALSE
    ELSE IF b.t = "nan" THEN TRUE
    ELSE IF a.t = "str" THEN StrRank(a.s) < StrRank(b.s)
    ELSE a.n < b.n

RECURSIVE Uniques_NaNDistinct(_, _, _)
(* Uniques with every missing value a value of its own (NaN != NaN) *)
Uniques_NaNDistinct(rows, col, i) ==
    IF i > Len(rows) THEN <<>>
    ELSE (IF rows[i][col] # NaN /\ \E j \in 1..(i - 1) : rows[j][col] = rows[i][col]
          THEN <<>> ELSE <<rows[i][col]>>) \o Uniques_NaNDistinct(rows, col, i + 1)

RECURSIVE Uniques(_, _, _)
(* the distinct values of column col in order of first appearance *)
Uniques(rows, col, i) ==
    IF i > Len(rows) THEN <<>>
    ELSE (IF \E j \in 1..(i - 1) : rows[j][col] = rows[i][col]
          THEN <<>> ELSE <<rows[i][col]>>) \o Uniques(rows, col, i + 1)

RECURSIVE InsertKey(_, _)
(* key x put into the ascending sequence of keys s *)
InsertKey(x, s) ==
    IF s = <<>> THEN <<x>>
    ELSE IF KeyLess(x, s[1]) THEN <<x>> \o s
    ELSE <<s[1]>> \o InsertKey(x, Tail(s))

(* the keys left in the order they come in (sort=False) *)
SortKeys_None(s) == s

RECURSIVE SortKeys(_)
SortKeys(s) == IF s = <<>> THEN <<>> ELSE InsertKey(s[1], SortKeys(Tail(s)))

RECURSIVE InsertInt(_, _)
(* number x put into the ascending sequence of numbers s *)
InsertInt(x, s) ==
    IF s = <<>> THEN <<x>>
    ELSE IF x < s[1] THEN <<x>> \o s
    ELSE <<s[1]>> \o InsertInt(x, Tail(s))

RECURSIVE SortInts(_)
SortInts(s) == IF s = <<>> THEN <<>> ELSE InsertInt(s[1], SortInts(Tail(s)))

(* the group keys with the missing key dropped (dropna left at its default) *)
GroupKeys_Dropna(d, categoria) ==
    SelectSeq(SortKeys(Uniques(d.rows, categoria, 1)), LAMBDA k : k # NaN)

(* the group keys of groupby(categoria, dropna=False), sort=True by default *)
GroupKeys(d, categoria) == SortKeys(Uniques(d.rows, categoria, 1))

(* the non-missing entries of column valor in the rows of group key *)
GroupValues(d, categoria, valor, key) ==
    LET members == Filter(d.rows,
                          [i \in 1..Len(d.rows) |-> d.rows[i][categoria] = key], 1)
        present == SelectSeq(members, LAMBDA r : r[valor] # NaN)
    IN [i \in 1..Len(present) |-> present[i][valor].n]

RECURSIVE SumSeq(_)
SumSeq(s) == IF s = <<>> THEN 0 ELSE s[1] + SumSeq(Tail(s))

g_sum(xs) == Frac(SumSeq(xs), 1)

g_mean(xs) == Frac(SumSeq(xs), Len(xs))

(* the median taken as the lower middle value, without averaging *)
g_median_LowerMiddle(xs) ==
    IF xs = <<>> THEN Frac(0, 0) ELSE Frac(SortInts(xs)[(Len(xs) + 1) \div 2], 1)

g_median(xs) ==
    LET sorted == SortInts(xs)
        n == Len(xs)
    IN IF n = 0 THEN Frac(0, 0)
       ELSE IF n % 2 = 1 THEN Frac(sorted[(n + 1) \div 2], 1)
       ELSE Frac(sorted[n \div 2] + sorted[n \div 2 + 1], 2)

g_count(xs) == Frac(Len(xs), 1)

Reduce(indicador, xs) ==
    IF indicador = "suma" THEN g_sum(xs)
    ELSE IF indicador = "promedio" THEN g_mean(xs)
    ELSE IF indicador = "mediana" THEN g_median(xs)
    ELSE g_count(xs)

NoReporte == [columns |-> <<>>, rows |-> <<>>]

calcular_indicador(d, categoria, valor, indicador) ==
    IF categoria \notin Range(d.columns)
    THEN [err |-> "KeyError_categoria", reporte |-> NoReporte]
    ELSE IF indicador \notin INDICADORES_VALIDOS
    THEN [err |-> "ValueError_indicador", reporte |-> NoReporte]
    ELSE LET keys == GroupKeys(d, categoria)
         IN [err |-> "none",
             reporte |->
               [columns |-> <<categoria, <<indicador, valor>>>>,
                rows |-> [k \in 1..Len(keys) |->
                            [key |-> keys[k],
                             stat |-> Reduce(indicador,
                                             GroupValues(d, categoria, valor, keys[k]))]]]]

(***************************************************************************)
(* main, one action per statement.  trace lists the stages that have run.  *)
(***************************************************************************)
PREVIEW_ROWS == 10

Fail(e) ==
    /\ pc' = "failed"
    /\ err' = e

(* parse_args without choices: every --indicador is let through *)
ParseArgs_NoChoices ==
    /\ pc = "parse_args"
    /\ trace' = Append(trace, "parse_args")
    /\ pc' = "exists"
    /\ UNCHANGED <<args, csv, df, reporte, err, outDir, outFile, stdout>>

(* parse_args(): argparse rejects an --indicador outside choices and exits *)
ParseArgs ==
    /\ pc = "parse_args"
    /\ trace' = Append(trace, "parse_args")
    /\ IF args.indicador \notin INDICADORES_VALIDOS
       THEN Fail("SystemExit")
       ELSE pc' = "exists" /\ err' = err
    /\ UNCHANGED <<args, csv, df, reporte, outDir, outFile, stdout>>

Exists ==
    /\ pc = "exists"
    /\ trace' = Append(trace, "exists")
    /\ IF ~csv.exists
       THEN Fail("FileNotFoundError")
       ELSE pc' = "leer_csv" /\ err' = err
    /\ UNCHANGED <<args, csv, df, reporte, outDir, outFile, stdout>>

LeerCsv ==
    /\ pc = "leer_csv"
    /\ trace' = Append(trace, "leer_csv")
    /\ LET r == leer_csv(csv)
       IN IF r.err # "none"
          THEN Fail(r.err) /\ df' = df
          ELSE pc' = "limpiar_df" /\ err' = err /\ df' = r.df
    /\ UNCHANGED <<args, csv, reporte, outDir, outFile, stdout>>

LimpiarDf ==
    /\ pc = "limpiar_df"
    /\ trace' = Append(trace, "limpiar_df")
    /\ LET r == limpiar_df(df, args.valor)
       IN IF r.err # "none"
          THEN Fail(r.err) /\ df' = df
          ELSE pc' = "filtrar_por_fecha" /\ err' = err /\ df' = r.df
    /\ UNCHANGED <<args, csv, reporte, outDir, outFile, stdout>>

FiltrarPorFecha ==
    /\ pc = "filtrar_por_fecha"
    /\ trace' = Append(trace, "filtrar_por_fecha")
    /\ df' = filtrar_por_fecha(df, args.desde, args.hasta)
    /\ pc' = "calcular_indicador"
    /\ UNCHANGED <<args, csv, reporte, err, outDir, outFile, stdout>>

(* the aggregation with its error caught and the run going on to write *)
CalcularIndicador_Swallow ==
    /\ pc = "calcular_indicador"
    /\ trace' = Append(trace, "calcular_indicador")
    /\ LET r == calcular_indicador(df, args.categoria, args.valor, args.indicador)
       IN pc' = "mkdir" /\ err' = r.err /\ reporte' = r.reporte
    /\ UNCHANGED <<args, csv, df, outDir, outFile, stdout>>

CalcularIndicador ==
    /\ pc = "calcular_indicador"
    /\ trace' = Append(trace, "calcular_indicador")
    /\ LET r == calcular_indicador(df, args.categoria, args.valor, args.indicador)
       IN IF r.err # "none"
          THEN Fail(r.err) /\ reporte' = reporte
          ELSE pc' = "mkdir" /\ err' = err /\ reporte' = r.reporte
    /\ UNCHANGED <<args, csv, df, outDir, outFile, stdout>>

(* out_path.parent.mkdir(parents=True, exist_ok=True) *)
Mkdir ==
    /\ pc = "mkdir"
    /\ trace' = Append(trace, "mkdir")
    /\ outDir' = IF outDir = "missing" THEN "created" ELSE outDir
    /\ pc' = "to_csv"
    /\ UNCHANGED <<args, csv, df, reporte, err, outFile, stdout>>

(* reporte.to_csv(out_path, ...) creates or overwrites the file *)
ToCsv ==
    /\ pc = "to_csv"
    /\ trace' = Append(trace, "to_csv")
    /\ outFile' = "written"
    /\ pc' = "print"
    /\ UNCHANGED <<args, csv, df, reporte, err, outDir, stdout>>

(* the confirmation line and reporte.head(10) *)
PrintResumen ==
    /\ pc = "print"
    /\ trace' = Append(trace, "print")
    /\ stdout' = SubSeq(reporte.rows, 1,
                        IF Len(reporte.rows) < PREVIEW_ROWS
                        THEN Len(reporte.rows) ELSE PREVIEW_ROWS)
    /\ pc' = "done"
    /\ UNCHANGED <<args, csv, df, reporte, err, outDir, outFile>>

Next ==
    \/ ParseArgs
    \/ Exists
    \/ LeerCsv
    \/ LimpiarDf
    \/ FiltrarPorFecha
    \/ CalcularIndicador
    \/ Mkdir
    \/ ToCsv
    \/ PrintResumen

(***************************************************************************)
(* Initial states: the command line, the input file and the output path    *)
(* before main starts.                                                     *)
(***************************************************************************)
NoFile == [exists |-> FALSE, header |-> <<>>, lines |-> <<>>]

Files(headers, rowset, n) ==
    {[exists |-> TRUE, header |-> h, lines |-> l] :
        h \in headers, l \in SeqsUpTo(rowset, n)}

(* the output directory and file before the run *)
Disks == {<<"missing", "absent">>, <<"present", "absent">>, <<"present", "old">>}

InitOf(files, argss, disks) ==
    /\ pc = "parse_args"
    /\ csv \in files
    /\ args \in argss
    /\ \E d \in disks : outDir = d[1] /\ outFile = d[2]
    /\ df = NoDf
    /\ reporte = NoReporte
    /\ err = "none"
    /\ stdout = <<>>
    /\ trace = <<>>

(* every way a run can fail, over a small file *)
Init ==
    InitOf({NoFile, [exists |-> TRUE, header |-> <<>>, lines |-> <<>>]}
             \cup Files({<<"cat", "val", "Fecha">>},
                        {<<"A", "10", "2025-01-02">>, <<"B", "bad", "bad">>}, MaxRows),
           [categoria : {"cat", "nope"}, valor : {"val", "nope"},
            indicador : INDICADORES_VALIDOS \cup {"bogus"},
            desde : {None, "2025-01-01"}, hasta : {None, "2025-01-03"}],
           Disks)

Spec == Init /\ [][Next]_vars

(* the cleaner over every mix of text and numeric value cells *)
InitLimpiar ==
    InitOf(Files({<<"cat", "val", "Fecha">>},
                 {"A", "B"} \X {"10", "10.0", "20", "bad", ""} \X {"2025-01-02"},
                 MaxRows),
           [categoria : {"cat"}, valor : {"val"}, indicador : {"conteo"},
            desde : {None}, hasta : {None}],
           {<<"present", "absent">>})

SpecLimpiar == InitLimpiar /\ [][Next]_vars

(* the date filter over every date cell, bound and date-column name *)
InitFiltrar ==
    InitOf(Files({<<"cat", "val", "Fecha">>, <<"cat", "val", "fechas">>},
                 {"A"} \X {"10", "20"}
                   \X {"2025-01-01", "2025-01-02", "2025-01-03", "bad", ""},
                 MaxRows),
           [categoria : {"cat"}, valor : {"val"}, indicador : {"conteo"},
            desde : {None, "", "2025-01-01", "2025-01-02"},
            hasta : {None, "", "2025-01-02", "2025-01-03"}],
           {<<"present", "absent">>})

SpecFiltrar == InitFiltrar /\ [][Next]_vars

(* the grouping over every category, with rows lost to cleaning and to the *)
(* date filter                                                             *)
InitGrupos ==
    InitOf(Files({<<"cat", "val", "Fecha">>},
                 {"A", "B", ""} \X {"10", "bad"} \X {"2025-01-01", "2025-01-03"},
                 MaxRows),
           [categoria : {"cat"}, valor : {"val"}, indicador : INDICADORES_VALIDOS,
            desde : {None}, hasta : {None, "2025-01-02"}],
           {<<"present", "absent">>})

SpecGrupos == InitGrupos /\ [][Next]_vars

(* the four statistics over groups of up to MaxRowsCalcular values *)
InitCalcular ==
    InitOf(Files({<<"cat", "val", "Fecha">>},
                 {"A", "B"} \X {"1", "2", "3", "4"} \X {"2025-01-02"},
                 MaxRowsCalcular),
           [categoria : {"cat"}, valor : {"val"}, indicador : INDICADORES_VALIDOS,
            desde : {None}, hasta : {None}],
           {<<"present", "absent">>})

SpecCalcular == InitCalcular /\ [][Next]_vars

(***************************************************************************)
(* Properties.                                                             *)
(***************************************************************************)
STAGES ==
    <<"parse_args", "exists", "leer_csv", "limpiar_df", "filtrar_por_fecha",
      "calcular_indicador", "mkdir", "to_csv", "print">>

Failed == pc = "failed"

(* the state right after limpiar_df returned *)
Cleaned == pc = "filtrar_por_fecha"

(* the state right after filtrar_por_fecha returned *)
Filtered == pc = "calcular_indicador"

(* the state right after calcular_indicador returned *)
Aggregated == pc = "mkdir"

(* C1: a run that ends in a validation error has written nothing: the      *)
(* output file is neither created nor overwritten and its directory is not *)
(* created; mkdir and to_csv run only after the four stages before them    *)
(* have returned without raising.                                          *)
C1_NoOutputOnError ==
    /\ Failed =>
         /\ outFile # "written"
         /\ outDir # "created"
         /\ "mkdir" \notin Range(trace)
         /\ "to_csv" \notin Range(trace)
    /\ (outFile = "written" \/ outDir = "created" \/ "mkdir" \in Range(trace)) =>
         /\ err = "none"
         /\ Len(trace) >= 7
         /\ SubSeq(trace, 1, 7) = SubSeq(STAGES, 1, 7)

(* a run that failed in the last stage that can fail, over an existing     *)
(* output file                                                             *)
C1_Witness ==
    /\ Failed
    /\ err = "KeyError_categoria"
    /\ outFile = "old"
    /\ Len(df.rows) >= 1

(* C2: the dataset limpiar_df returns holds no two rows that are equal on  *)
(* all columns.                                                            *)
C2_NoDuplicateRows ==
    Cleaned =>
      \A i \in 1..Len(df.rows) : \A j \in 1..Len(df.rows) :
         i # j => df.rows[i] # df.rows[j]

(* C3: limpiar_df applied to its own output returns it unchanged.          *)
C3_Idempotent ==
    Cleaned =>
      /\ limpiar_df(df, args.valor).err = "none"
      /\ limpiar_df(df, args.valor).df = df

(* the date column of the dataset about to be filtered, if it has one *)
HasDateColumn == \E j \in 1..Len(df.columns) : Lower(df.columns[j]) \in NOMBRES_FECHA

DateColumn ==
    df.columns[CHOOSE j \in 1..Len(df.columns) :
                  /\ Lower(df.columns[j]) \in NOMBRES_FECHA
                  /\ \A k \in 1..(j - 1) : Lower(df.columns[k]) \notin NOMBRES_FECHA]

(* a text cell that reads as a date *)
Parseable(cell) == cell.t = "str" /\ ParseDate(cell.s)[1]

(* day n lies within the bounds that name a date *)
InBounds(n) ==
    /\ ParseDate(args.desde)[1] => n >= ParseDate(args.desde)[2]
    /\ ParseDate(args.hasta)[1] => n <= ParseDate(args.hasta)[2]

(* row r of the input with its date cell read as a date *)
Dated(r) == [r EXCEPT ![DateColumn] = Date(ParseDate(r[DateColumn].s)[2])]

(* C4: when a date column is detected and a bound is supplied, every row   *)
(* of the result of filtrar_por_fecha stems from an input row whose date   *)
(* parses and lies within the supplied bounds, and every such input row is *)
(* in the result: both bounds are inclusive and a missing bound leaves its *)
(* side open.                                                              *)
C4_WithinBounds ==
    [][(pc = "filtrar_por_fecha" /\ HasDateColumn
          /\ (args.desde # None \/ args.hasta # None)) =>
         /\ \A k \in 1..Len(df'.rows) :
              /\ df'.rows[k][DateColumn].t = "date"
              /\ InBounds(df'.rows[k][DateColumn].n)
              /\ \E i \in 1..Len(df.rows) :
                   Parseable(df.rows[i][DateColumn]) /\ df'.rows[k] = Dated(df.rows[i])
         /\ \A i \in 1..Len(df.rows) :
              (/\ Parseable(df.rows[i][DateColumn])
               /\ InBounds(ParseDate(df.rows[i][DateColumn].s)[2]))
              => \E k \in 1..Len(df'.rows) : df'.rows[k] = Dated(df.rows[i])]_vars

(* filtered from the 2nd of January on with no upper bound: the row dated  *)
(* on the bound and a later one are kept, an earlier one is gone           *)
C4_Witness ==
    /\ Filtered
    /\ args.desde = "2025-01-02"
    /\ args.hasta = None
    /\ \E i \in 1..Len(csv.lines) : csv.lines[i][3] = "2025-01-01"
    /\ "Fecha" \in Range(df.columns)
    /\ {df.rows[k]["Fecha"] : k \in 1..Len(df.rows)} = {Date(2), Date(3)}

(* C8: filtrar_por_fecha returns the dataset unchanged when no column name *)
(* is one of fecha/date/dia/day in any letter case or when neither bound   *)
(* is given; with a date column and a bound given, the rows whose date     *)
(* does not parse are removed.                                             *)
C8_UnchangedOrParsed ==
    [][pc = "filtrar_por_fecha" =>
         IF (\A c \in Range(df.columns) : Lower(c) \notin NOMBRES_FECHA)
              \/ (args.desde = None /\ args.hasta = None)
         THEN df' = df
         ELSE /\ \A k \in 1..Len(df'.rows) : df'.rows[k][DateColumn].t = "date"
              /\ Len(df'.rows) <=
                   Cardinality({i \in 1..Len(df.rows) : Parseable(df.rows[i][DateColumn])})]_vars

(* a date column, no bound, and a row whose date does not parse is still   *)
(* there after the filter                                                  *)
C8_Witness ==
    /\ Filtered
    /\ args.desde = None
    /\ args.hasta = None
    /\ "Fecha" \in Range(df.columns)
    /\ \E k \in 1..Len(df.rows) : df.rows[k]["Fecha"] = Str("bad")
    /\ \E k \in 1..Len(df.rows) : df.rows[k]["Fecha"] = NaN

(* the rows of the cleaned and filtered dataset whose category is k *)
Members(k) == {i \in 1..Len(df.rows) : df.rows[i][args.categoria] = k}

ValueOf(i) == df.rows[i][args.valor].n

RECURSIVE SetSum(_)
(* the sum of the values of the rows in I *)
SetSum(I) ==
    IF I = {} THEN 0
    ELSE LET i == CHOOSE x \in I : TRUE IN ValueOf(i) + SetSum(I \ {i})

(* the k-th smallest value among the rows in I *)
OrderStat(I, k) ==
    CHOOSE x \in {ValueOf(i) : i \in I} :
       /\ Cardinality({i \in I : ValueOf(i) < x}) < k
       /\ Cardinality({i \in I : ValueOf(i) <= x}) >= k

(* the statistic st is the number a / b *)
IsQuotient(st, a, b) == st.den > 0 /\ st.num * b = a * st.den

RECURSIVE SumOfStats(_)
SumOfStats(rows) ==
    IF rows = <<>> THEN 0 ELSE rows[1].stat.num + SumOfStats(Tail(rows))

(* C5: with the count indicator the per-group counts add up to the number  *)
(* of rows of the cleaned and filtered dataset, rows with a missing        *)
(* category included.                                                      *)
C5_CountsSumToRows ==
    (Aggregated /\ args.indicador = "conteo") =>
      /\ \A r \in 1..Len(reporte.rows) : reporte.rows[r].stat.den = 1
      /\ SumOfStats(reporte.rows) = Len(df.rows)

(* counts over a dataset that has rows without a category, after cleaning  *)
(* and filtering removed some rows                                         *)
C5_Witness ==
    /\ Aggregated
    /\ args.indicador = "conteo"
    /\ Cardinality(Members(NaN)) >= 1
    /\ Cardinality(Members(Str("A"))) >= 1
    /\ Len(df.rows) < Len(csv.lines)

(* C6: for every indicator the report has one row per distinct category    *)
(* value of the cleaned and filtered dataset, the missing category being   *)
(* one value; a category that lost all its rows has no row.                *)
C6_OneRowPerCategory ==
    Aggregated =>
      /\ Len(reporte.rows) = Cardinality({df.rows[i][args.categoria] : i \in 1..Len(df.rows)})
      /\ {reporte.rows[r].key : r \in 1..Len(reporte.rows)}
           = {df.rows[i][args.categoria] : i \in 1..Len(df.rows)}

(* the missing category has its row, category A lost its rows to the date  *)
(* filter and category B to the cleaning                                   *)
C6_Witness ==
    /\ Aggregated
    /\ \E r \in 1..Len(reporte.rows) : reporte.rows[r].key = NaN
    /\ \E i \in 1..Len(csv.lines) : csv.lines[i][1] = "A" /\ csv.lines[i][2] = "10"
    /\ \E i \in 1..Len(csv.lines) : csv.lines[i][1] = "B" /\ csv.lines[i][2] = "bad"
    /\ Len(reporte.rows) = 1
    /\ args.hasta # None

(* C7: the statistic of every group is the sum, the mean, the median (the  *)
(* mean of the two middle values of an even-sized group) or the number of  *)
(* the values of exactly the rows of that group, and every row is in a     *)
(* group.                                                                  *)
C7_Statistic ==
    Aggregated =>
      /\ \A i \in 1..Len(df.rows) :
           \E r \in 1..Len(reporte.rows) : reporte.rows[r].key = df.rows[i][args.categoria]
      /\ \A r \in 1..Len(reporte.rows) :
           LET I == Members(reporte.rows[r].key)
               n == Cardinality(I)
               st == reporte.rows[r].stat
           IN /\ n > 0
              /\ args.indicador = "suma" => IsQuotient(st, SetSum(I), 1)
              /\ args.indicador = "promedio" => IsQuotient(st, SetSum(I), n)
              /\ args.indicador = "mediana" =>
                   IF n % 2 = 1 THEN IsQuotient(st, OrderStat(I, (n + 1) \div 2), 1)
                   ELSE IsQuotient(st, OrderStat(I, n \div 2)
                                         + OrderStat(I, n \div 2 + 1), 2)
              /\ args.indicador = "conteo" => IsQuotient(st, n, 1)

(* the median 2.5 of a group with the values 1, 2, 3, 4 *)
C7_Witness ==
    /\ Aggregated
    /\ args.indicador = "mediana"
    /\ \E r \in 1..Len(reporte.rows) :
         /\ {ValueOf(i) : i \in Members(reporte.rows[r].key)} = {1, 2, 3, 4}
         /\ reporte.rows[r].stat = [num |-> 5, den |-> 2]

(* the first row of the dataset with category k *)
FirstRow(k) ==
    CHOOSE i \in 1..Len(df.rows) :
       /\ df.rows[i][args.categoria] = k
       /\ \A j \in 1..(i - 1) : df.rows[j][args.categoria] # k

(* C9 as stated: the rows of the report are in the order in which their    *)
(* categories first appear in the dataset.                                 *)
C9_FirstEncounterOrder ==
    Aggregated =>
      \A a \in 1..Len(reporte.rows) : \A b \in 1..Len(reporte.rows) :
         a < b => FirstRow(reporte.rows[a].key) < FirstRow(reporte.rows[b].key)

(* C9 amended: the report has one row per distinct category, in ascending  *)
(* order of the category value, the row of the missing category last.      *)
C9_SortedOrder ==
    Aggregated =>
      \A a \in 1..Len(reporte.rows) : \A b \in 1..Len(reporte.rows) :
         a < b =>
           /\ reporte.rows[a].key # NaN
           /\ \/ reporte.rows[b].key = NaN
              \/ StrRank(reporte.rows[a].key.s) < StrRank(reporte.rows[b].key.s)

(* the dataset meets the missing category first, then B, then A, and the   *)
(* report lists A, B, missing                                              *)
C9_Witness ==
    /\ Aggregated
    /\ Len(df.rows) = 3
    /\ <<df.rows[1]["cat"], df.rows[2]["cat"], df.rows[3]["cat"]>> = <<NaN, Str("B"), Str("A")>>
    /\ <<reporte.rows[1].key, reporte.rows[2].key, reporte.rows[3].key>>
         = <<Str("A"), Str("B"), NaN>>

(* the validation error a failure is *)
Kind(e) ==
    CASE e = "FileNotFoundError" -> "file_not_found"
      [] e \in {"EmptyDataError", "ValueError_vacio"} -> "empty_data"
      [] e = "KeyError_valor" -> "missing_valor"
      [] e = "KeyError_categoria" -> "missing_categoria"
      [] e \in {"SystemExit", "ValueError_indicador"} -> "invalid_indicador"
      [] OTHER -> "none"

(* the validation conditions of the run, from its inputs *)
FileMissing == ~csv.exists
DataEmpty == csv.header = <<>> \/ csv.lines = <<>>
ValorMissing == args.valor \notin Range(csv.header)
CategoriaMissing == args.categoria \notin Range(csv.header)
IndicadorInvalid == args.indicador \notin INDICADORES_VALIDOS

(* the stage that raises error e *)
StageOf(e) ==
    CASE e = "SystemExit" -> "parse_args"
      [] e = "FileNotFoundError" -> "exists"
      [] e \in {"EmptyDataError", "ValueError_vacio"} -> "leer_csv"
      [] e = "KeyError_valor" -> "limpiar_df"
      [] OTHER -> "calcular_indicador"

(* the stages run are the first stages of the pipeline, in order *)
TraceIsPrefix == Len(trace) <= Len(STAGES) /\ trace = SubSeq(STAGES, 1, Len(trace))

(* C10 as stated: a failed run reports the first condition that holds in   *)
(* the order file not found, empty data, missing value column, missing     *)
(* category column, invalid indicator.                                     *)
C10_StatedOrder ==
    Failed =>
      Kind(err) = IF FileMissing THEN "file_not_found"
                  ELSE IF DataEmpty THEN "empty_data"
                  ELSE IF ValorMissing THEN "missing_valor"
                  ELSE IF CategoriaMissing THEN "missing_categoria"
                  ELSE "invalid_indicador"

(* C10 amended: an invalid indicator is rejected first, by parse_args,     *)
(* before the file is looked at; after it the order is file not found,     *)
(* empty data, missing value column, missing category column.  The failing *)
(* stage is the last one that runs, a missing category column is reported  *)
(* after the cleaning and the date filter, and calcular_indicador itself   *)
(* checks the category before the indicator.                               *)
C10_ActualOrder ==
    /\ TraceIsPrefix
    /\ Failed =>
         /\ err = IF IndicadorInvalid THEN "SystemExit"
                  ELSE IF FileMissing THEN "FileNotFoundError"
                  ELSE IF csv.header = <<>> THEN "EmptyDataError"
                  ELSE IF csv.lines = <<>> THEN "ValueError_vacio"
                  ELSE IF ValorMissing THEN "KeyError_valor"
                  ELSE "KeyError_categoria"
         /\ trace[Len(trace)] = StageOf(err)
         /\ err = "KeyError_categoria" => CategoriaMissing
    /\ (~Failed /\ pc \notin {"parse_args"}) => ~IndicadorInvalid
    /\ pc = "calcular_indicador" =>
         /\ calcular_indicador(df, "nope", args.valor, "bogus").err = "KeyError_categoria"
         /\ calcular_indicador(df, args.categoria, args.valor, "bogus").err
              = IF CategoriaMissing THEN "KeyError_categoria" ELSE "ValueError_indicador"

(* a run with no file and an invalid indicator, ended by parse_args *)
C10_Witness ==
    /\ Failed
    /\ FileMissing
    /\ IndicadorInvalid
    /\ err = "SystemExit"
    /\ trace = <<"parse_args">>

====
